---------------------------- MODULE Spec2Model ----------------------------
(***************************************************************************)
(* Model of src/src/spiral_rcpp.cpp: the three exported routines           *)
(* generate_spiral_cpp, calculate_limits_cpp and count_bounded_cells_cpp,  *)
(* run one call at a time by a single-threaded host.                       *)
(*                                                                         *)
(* A C++ double is modelled as a binary floating-point number with a       *)
(* Precision-bit significand, round-to-nearest-even, with NaN and the two  *)
(* infinities.  The exponent range is not bounded (no overflow/underflow)  *)
(* and the sign of zero is not kept (-0.0 and 0.0 compare equal in C++).   *)
(* std::sqrt, std::cos and std::sin of a finite argument are uninterpreted *)
(* terms: equal arguments give equal results, nothing else is assumed.     *)
(***************************************************************************)
EXTENDS Integers, Sequences, FiniteSets

VARIABLES pc, fn, args, loc, ret, memo

vars == <<pc, fn, args, loc, ret, memo>>

---------------------------------------------------------------------------
(* Bounds of the model *)

\* significand bits of the modelled double (53 in the build)
Precision == 4
\* largest num_points passed to generate_spiral_cpp
MaxPoints == 4
\* largest number of rows of the vertices matrix
MaxRows == 2
\* largest length of the has_infinite vector
MaxFlags == 3

---------------------------------------------------------------------------
(* double arithmetic *)

RECURSIVE GCD(_, _)
GCD(a, b) == IF b = 0 THEN a ELSE GCD(b, a % b)

IAbs(n) == IF n < 0 THEN -n ELSE n

RECURSIVE Pow2(_)
Pow2(e) == IF e = 0 THEN 1 ELSE 2 * Pow2(e - 1)

NaN == [k |-> "nan", n |-> 0, d |-> 1]
PInf == [k |-> "inf", n |-> 1, d |-> 1]
NInf == [k |-> "inf", n |-> -1, d |-> 1]

\* the finite value n/d (d > 0) in lowest terms
Fin(n, d) ==
  LET g == GCD(IAbs(n), d)
  IN  [k |-> "fin", n |-> n \div g, d |-> d \div g]

Zero == Fin(0, 1)

IsNaN(a) == a.k = "nan"
IsInf(a) == a.k = "inf"
IsFin(a) == a.k = "fin"
\* a result of sqrt, cos, sin or of a product with one: finite, value not computed
IsTerm(a) == a.k \in {"sqrt", "cos", "sin", "mul"}

\* sign of a number (not NaN, not a term): -1, 0, 1
Sgn(a) == IF a.n < 0 THEN -1 ELSE IF a.n > 0 THEN 1 ELSE 0

Inf(s) == IF s < 0 THEN NInf ELSE PInf

\* n/d > 0 rounded to Precision significant bits, ties to even: <<num, den>>
RECURSIVE RoundPos(_, _)
RoundPos(n, d) ==
  IF n >= Pow2(Precision) * d
  THEN LET r == RoundPos(n, 2 * d) IN <<2 * r[1], r[2]>>
  ELSE IF n < Pow2(Precision - 1) * d
  THEN LET r == RoundPos(2 * n, d) IN <<r[1], 2 * r[2]>>
  ELSE LET m == n \div d
           rem == n % d
           up == 2 * rem > d \/ (2 * rem = d /\ m % 2 = 1)
       IN  <<IF up THEN m + 1 ELSE m, 1>>

\* the double nearest to the real n/d (d > 0)
Round(n, d) ==
  IF n = 0 THEN Zero
  ELSE LET r == RoundPos(IAbs(n), d)
       IN  Fin((IF n < 0 THEN -1 ELSE 1) * r[1], r[2])

\* int -> double conversion: exact, an int has fewer bits than the significand
FFromInt(i) == Fin(i, 1)

FNeg(a) ==
  IF IsNaN(a) THEN NaN
  ELSE IF IsInf(a) THEN Inf(-a.n)
  ELSE Fin(-a.n, a.d)

\* std::abs(double)
FAbs(a) ==
  IF IsNaN(a) THEN NaN
  ELSE IF IsInf(a) THEN PInf
  ELSE Fin(IAbs(a.n), a.d)

FAdd(a, b) ==
  IF IsNaN(a) \/ IsNaN(b) THEN NaN
  ELSE IF IsInf(a) /\ IsInf(b) THEN (IF a.n = b.n THEN a ELSE NaN)
  ELSE IF IsInf(a) THEN a
  ELSE IF IsInf(b) THEN b
  ELSE Round(a.n * b.d + b.n * a.d, a.d * b.d)

FSub(a, b) == FAdd(a, FNeg(b))

FMul(a, b) ==
  IF IsNaN(a) \/ IsNaN(b) THEN NaN
  ELSE IF IsTerm(a) \/ IsTerm(b) THEN [k |-> "mul", a |-> a, b |-> b]
  ELSE IF IsInf(a) \/ IsInf(b)
  THEN (IF Sgn(a) * Sgn(b) = 0 THEN NaN ELSE Inf(Sgn(a) * Sgn(b)))
  ELSE Round(a.n * b.n, a.d * b.d)

\* a / b; a zero divisor is +0 here (the divisor is a converted int)
FDiv(a, b) ==
  IF IsNaN(a) \/ IsNaN(b) THEN NaN
  ELSE IF IsInf(a) /\ IsInf(b) THEN NaN
  ELSE IF IsInf(a) THEN Inf(IF Sgn(b) < 0 THEN -a.n ELSE a.n)
  ELSE IF IsInf(b) THEN Zero
  ELSE IF b.n = 0 THEN (IF a.n = 0 THEN NaN ELSE Inf(Sgn(a)))
  ELSE Round(Sgn(b) * a.n * b.d, a.d * IAbs(b.n))

\* a > b; false when either is NaN
FGt(a, b) ==
  /\ ~IsNaN(a)
  /\ ~IsNaN(b)
  /\ IF IsInf(a) THEN (a.n = 1 /\ b # PInf)
     ELSE IF IsInf(b) THEN b.n = -1
     ELSE a.n * b.d > b.n * a.d

\* a == b; false when either is NaN
FEq(a, b) == ~IsNaN(a) /\ ~IsNaN(b) /\ a = b

\* a >= b; false when either is NaN
FGe(a, b) == FGt(a, b) \/ FEq(a, b)

\* std::ceil
FCeil(a) ==
  IF IsFin(a) THEN Fin(-((-a.n) \div a.d), 1) ELSE a

\* std::sqrt: NaN below zero, otherwise a term of the argument
FSqrt(a) ==
  IF IsNaN(a) THEN NaN
  ELSE IF IsInf(a) THEN (IF a.n = 1 THEN PInf ELSE NaN)
  ELSE IF a.n < 0 THEN NaN
  ELSE [k |-> "sqrt", of |-> a]

\* std::cos, std::sin: NaN at NaN and at an infinity
FCos(a) == IF IsFin(a) THEN [k |-> "cos", of |-> a] ELSE NaN
FSin(a) == IF IsFin(a) THEN [k |-> "sin", of |-> a] ELSE NaN

---------------------------------------------------------------------------
(* Inputs the host passes *)

\* angle_start, angle_end; 13/2 stands for 2*pi
AngleVals == {NaN, PInf, Fin(-1, 1), Zero, Fin(13, 2)}
\* entries of the vertices matrix
CoordVals == {NaN, PInf, Fin(-3, 1), Fin(1, 1)}
\* padding; 9/8 stands for the default 1.1
PaddingVals == {NaN, Fin(-1, 1), Zero, Fin(9, 8)}
\* entries of an R logical vector
FlagVals == {"TRUE", "FALSE", "NA"}

\* an n x 2 NumericMatrix: rows 0..n-1, columns 0..1
Matrices(n, vals) == [0 .. n - 1 -> [0 .. 1 -> vals]]
\* a LogicalVector of length n: elements 0..n-1
Vectors(n, vals) == [0 .. n - 1 -> vals]

nrow(m) == Cardinality(DOMAIN m)
size(v) == Cardinality(DOMAIN v)

---------------------------------------------------------------------------
(* State: pc is the position of the call ("idle" between calls, "done" when *)
(* it has returned), fn the routine called, args its arguments, loc its    *)
(* locals, ret the value it returned.  The routines have no static or      *)
(* global object: nothing of a call is left once the host has its result.  *)
(* memo is a history variable: the first completed call on a remembered    *)
(* input, and whether another call came after it.                          *)

NoArgs == [none |-> TRUE]
NoLocals == [none |-> TRUE]
NoValue == [none |-> TRUE]
NoMemo == [fn |-> "none"]

Init ==
  /\ pc = "idle"
  /\ fn = "none"
  /\ args = NoArgs
  /\ loc = NoLocals
  /\ ret = NoValue
  /\ memo = NoMemo

\* the host takes the result; the frame of the call is gone
Resume ==
  /\ pc = "done"
  /\ pc' = "idle"
  /\ fn' = "none"
  /\ args' = NoArgs
  /\ loc' = NoLocals
  /\ ret' = NoValue
  /\ UNCHANGED memo

\* inputs whose first result is remembered
Remembered(f, a) ==
  \/ /\ f = "generate_spiral_cpp"
     /\ a = [angle_start |-> Zero, angle_end |-> Fin(13, 2), num_points |-> 2]
  \/ /\ f = "calculate_limits_cpp"
     /\ a.padding = Fin(9, 8)
     /\ nrow(a.vertices) = 1
     /\ a.vertices[0][0] = Fin(1, 1)
     /\ a.vertices[0][1] = Fin(1, 1)
  \/ /\ f = "count_bounded_cells_cpp"
     /\ size(a.has_infinite) = 1
     /\ a.has_infinite[0] = "FALSE"

\* memo after the call of f on a returns r
Observe(f, a, r) ==
  IF memo.fn = "none"
  THEN IF Remembered(f, a)
       THEN [fn |-> f, args |-> a, ret |-> r, between |-> FALSE]
       ELSE memo
  ELSE IF memo.fn = f /\ memo.args = a
       THEN memo
       ELSE [memo EXCEPT !.between = TRUE]

---------------------------------------------------------------------------
(* generate_spiral_cpp *)

\* NumericMatrix points(num_points, 2): zero-filled
NewMatrix(n) == [i \in 0 .. n - 1 |-> [c \in 0 .. 1 |-> Zero]]

\* mutant: the range divided by num_points
SpiralStepByCount(angle_start, angle_end, num_points) ==
  FDiv(FSub(angle_end, angle_start), FFromInt(num_points))

\* step = (angle_end - angle_start) / (num_points - 1)
SpiralStep(angle_start, angle_end, num_points) ==
  FDiv(FSub(angle_end, angle_start), FFromInt(num_points - 1))

\* theta = angle_start + i * step
SpiralTheta(angle_start, i, step) ==
  FAdd(angle_start, FMul(FFromInt(i), step))

\* mutant: the radius taken from the magnitude of theta
SpiralRowOfMagnitude(theta) ==
  LET sqrt_theta == FSqrt(FAbs(theta))
  IN  [c \in 0 .. 1 |-> IF c = 0 THEN FMul(sqrt_theta, FCos(theta))
                                  ELSE FMul(sqrt_theta, FSin(theta))]

\* the row written for theta: (sqrt_theta * cos(theta), sqrt_theta * sin(theta))
SpiralRow(theta) ==
  LET sqrt_theta == FSqrt(theta)
  IN  [c \in 0 .. 1 |-> IF c = 0 THEN FMul(sqrt_theta, FCos(theta))
                                  ELSE FMul(sqrt_theta, FSin(theta))]

\* mutant: the loop stops one row early
SpiralLoopCondShort(i, num_points) == i < num_points - 1

\* the loop condition i < num_points
SpiralLoopCond(i, num_points) == i < num_points

\* entry: allocate the matrix, compute the step, i = 0.
\* thetas and written are history: the theta of each row, the rows assigned
GenerateSpiralCall ==
  /\ pc = "idle"
  /\ \E angle_start \in AngleVals, angle_end \in AngleVals,
        num_points \in 0 .. MaxPoints :
       /\ args' = [angle_start |-> angle_start, angle_end |-> angle_end,
                   num_points |-> num_points]
       /\ loc' = [points |-> NewMatrix(num_points),
                  step |-> SpiralStep(angle_start, angle_end, num_points),
                  i |-> 0,
                  thetas |-> [j \in {} |-> NaN],
                  written |-> {}]
  /\ pc' = "gs_loop"
  /\ fn' = "generate_spiral_cpp"
  /\ UNCHANGED <<ret, memo>>

\* one iteration of the loop
GenerateSpiralLoop ==
  /\ pc = "gs_loop"
  /\ SpiralLoopCond(loc.i, args.num_points)
  /\ LET theta == SpiralTheta(args.angle_start, loc.i, loc.step)
     IN  loc' = [loc EXCEPT !.points[loc.i] = SpiralRow(theta),
                            !.thetas = [j \in DOMAIN loc.thetas \cup {loc.i} |->
                                          IF j = loc.i THEN theta ELSE loc.thetas[j]],
                            !.written = @ \cup {loc.i},
                            !.i = @ + 1]
  /\ UNCHANGED <<pc, fn, args, ret, memo>>

\* loop exit: name the columns and return the matrix
GenerateSpiralReturn ==
  /\ pc = "gs_loop"
  /\ ~SpiralLoopCond(loc.i, args.num_points)
  /\ LET r == [data |-> loc.points, colnames |-> <<"x", "y">>]
     IN  /\ ret' = r
         /\ memo' = Observe(fn, args, r)
  /\ pc' = "done"
  /\ UNCHANGED <<fn, args, loc>>

---------------------------------------------------------------------------
(* calculate_limits_cpp *)

\* mutant: the emptiness test made on the column count, which is always 2
IsEmptyByColumns(vertices) == Cardinality(0 .. 1) = 0

\* vertices.nrow() == 0
IsEmpty(vertices) == nrow(vertices) = 0

\* NumericVector::create(-10.0, 10.0)
DefaultLimits == <<Fin(-10, 1), Fin(10, 1)>>

\* double max_abs = 0.0
MaxAbsInit == Zero

\* mutant: only the x column is scanned
ScanRowXOnly(max_abs, row) ==
  LET abs_x == FAbs(row[0])
  IN  IF FGt(abs_x, max_abs) THEN abs_x ELSE max_abs

\* mutant: the y coordinate is assigned without the comparison
ScanRowUnguardedY(max_abs, row) == FAbs(row[1])

\* mutant: a NaN coordinate makes the running maximum NaN
ScanRowNaNSticky(max_abs, row) ==
  LET abs_x == FAbs(row[0])
      abs_y == FAbs(row[1])
      m1 == IF IsNaN(abs_x) \/ FGt(abs_x, max_abs) THEN abs_x ELSE max_abs
  IN  IF IsNaN(abs_y) \/ FGt(abs_y, m1) THEN abs_y ELSE m1

\* the loop body: both coordinates of one row against the running maximum
ScanRow(max_abs, row) ==
  LET abs_x == FAbs(row[0])
      abs_y == FAbs(row[1])
      m1 == IF FGt(abs_x, max_abs) THEN abs_x ELSE max_abs
  IN  IF FGt(abs_y, m1) THEN abs_y ELSE m1

\* limit = std::ceil(max_abs * padding)
Limit(max_abs, padding) == FCeil(FMul(max_abs, padding))

\* mutant: the pair built in the wrong order
LimitPairSwapped(limit) == <<limit, FNeg(limit)>>

\* NumericVector::create(-limit, limit)
LimitPair(limit) == <<FNeg(limit), limit>>

\* the scan of rows i, i+1, ... from a running maximum
RECURSIVE ScanFrom(_, _, _)
ScanFrom(max_abs, vertices, i) ==
  IF i < nrow(vertices)
  THEN ScanFrom(ScanRow(max_abs, vertices[i]), vertices, i + 1)
  ELSE max_abs

\* the routine as a function of its arguments
calculate_limits_cpp(vertices, padding) ==
  IF IsEmpty(vertices) THEN DefaultLimits
  ELSE LimitPair(Limit(ScanFrom(MaxAbsInit, vertices, 0), padding))

\* the early return on an empty matrix: no local is initialised
CalculateLimitsEmpty ==
  /\ pc = "idle"
  /\ \E n \in 0 .. MaxRows : \E vertices \in Matrices(n, CoordVals) :
       \E padding \in PaddingVals :
         /\ IsEmpty(vertices)
         /\ args' = [vertices |-> vertices, padding |-> padding]
         /\ memo' = Observe("calculate_limits_cpp",
                            [vertices |-> vertices, padding |-> padding],
                            DefaultLimits)
  /\ fn' = "calculate_limits_cpp"
  /\ loc' = NoLocals
  /\ ret' = DefaultLimits
  /\ pc' = "done"

\* entry with rows: max_abs = 0.0, i = 0
CalculateLimitsCall ==
  /\ pc = "idle"
  /\ \E n \in 0 .. MaxRows : \E vertices \in Matrices(n, CoordVals) :
       \E padding \in PaddingVals :
         /\ ~IsEmpty(vertices)
         /\ args' = [vertices |-> vertices, padding |-> padding]
  /\ pc' = "cl_loop"
  /\ fn' = "calculate_limits_cpp"
  /\ loc' = [max_abs |-> MaxAbsInit, i |-> 0]
  /\ UNCHANGED <<ret, memo>>

\* one iteration of the scan
CalculateLimitsLoop ==
  /\ pc = "cl_loop"
  /\ loc.i < nrow(args.vertices)
  /\ loc' = [loc EXCEPT !.max_abs = ScanRow(loc.max_abs, args.vertices[loc.i]),
                        !.i = @ + 1]
  /\ UNCHANGED <<pc, fn, args, ret, memo>>

\* loop exit: compute the limit and return the pair
CalculateLimitsReturn ==
  /\ pc = "cl_loop"
  /\ ~(loc.i < nrow(args.vertices))
  /\ LET limit == Limit(loc.max_abs, args.padding)
     IN  /\ loc' = [max_abs |-> loc.max_abs, i |-> loc.i, limit |-> limit]
         /\ ret' = LimitPair(limit)
         /\ memo' = Observe(fn, args, LimitPair(limit))
  /\ pc' = "done"
  /\ UNCHANGED <<fn, args>>

---------------------------------------------------------------------------
(* count_bounded_cells_cpp *)

\* mutant: count declared without an initialiser holds whatever is there
CountUninitialised == 0 .. 1

\* int count = 0: the values count holds after its declaration
CountInit == {0}

\* mutant: every entry that is not TRUE is counted
NotFlagNotTrue(x) == x # "TRUE"

\* !has_infinite[i]: a LogicalVector element is an int, FALSE is 0
NotFlag(x) == x = "FALSE"

\* entry: count = 0, i = 0
CountBoundedCall ==
  /\ pc = "idle"
  /\ \E n \in 0 .. MaxFlags : \E has_infinite \in Vectors(n, FlagVals) :
       args' = [has_infinite |-> has_infinite]
  /\ pc' = "cb_loop"
  /\ fn' = "count_bounded_cells_cpp"
  /\ \E count \in CountInit : loc' = [count |-> count, i |-> 0]
  /\ UNCHANGED <<ret, memo>>

\* one iteration of the loop
CountBoundedLoop ==
  /\ pc = "cb_loop"
  /\ loc.i < size(args.has_infinite)
  /\ loc' = [count |-> IF NotFlag(args.has_infinite[loc.i])
                       THEN loc.count + 1 ELSE loc.count,
             i |-> loc.i + 1]
  /\ UNCHANGED <<pc, fn, args, ret, memo>>

\* loop exit: return count
CountBoundedReturn ==
  /\ pc = "cb_loop"
  /\ ~(loc.i < size(args.has_infinite))
  /\ ret' = loc.count
  /\ memo' = Observe(fn, args, loc.count)
  /\ pc' = "done"
  /\ UNCHANGED <<fn, args, loc>>

---------------------------------------------------------------------------

Next ==
  \/ GenerateSpiralCall
  \/ CalculateLimitsEmpty
  \/ CalculateLimitsCall
  \/ CountBoundedCall
  \/ GenerateSpiralLoop
  \/ GenerateSpiralReturn
  \/ CalculateLimitsLoop
  \/ CalculateLimitsReturn
  \/ CountBoundedLoop
  \/ CountBoundedReturn
  \/ Resume

Spec == Init /\ [][Next]_vars

---------------------------------------------------------------------------
(* Properties *)

\* the call of f has returned and the host has not yet resumed
Done(f) == pc = "done" /\ fn = f

\* the absolute values of all coordinates of v, both columns
AbsCoords(v) == {FAbs(v[i][c]) : i \in DOMAIN v, c \in 0 .. 1}

\* m is the single largest element of S
IsLargest(m, S) == m \in S /\ \A a \in S : FGe(m, a)

\* the largest number among the absolute values of v, 0.0 when all are NaN
MaxNumber(v) ==
  LET S == {a \in AbsCoords(v) : ~IsNaN(a)}
  IN  IF S = {} THEN Zero ELSE CHOOSE m \in S : IsLargest(m, S)

HasNaN(v) == \E i \in DOMAIN v, c \in 0 .. 1 : IsNaN(v[i][c])

\* C1: for a non-empty vertices matrix and any padding, calculate_limits
\* returns (-bound, bound) with bound = ceil(M * padding), M the single
\* largest absolute value over both columns of all rows.
C1_LimitsFromSingleMaximum ==
  (Done("calculate_limits_cpp") /\ nrow(args.vertices) # 0) =>
    \A m \in AbsCoords(args.vertices) :
      IsLargest(m, AbsCoords(args.vertices)) =>
        LET bound == FCeil(FMul(m, args.padding))
        IN  ret = <<FNeg(bound), bound>>

\* C1 witness: the largest magnitude is a negative y, every x is smaller,
\* and the ceiling rounds the padded maximum up: 3 * 9/8 -> 4.
C1_Witness ==
  /\ Done("calculate_limits_cpp")
  /\ nrow(args.vertices) = 2
  /\ \A i \in DOMAIN args.vertices : args.vertices[i][0] = Fin(1, 1)
  /\ args.vertices[0][1] = Fin(1, 1)
  /\ args.vertices[1][1] = Fin(-3, 1)
  /\ args.padding = Fin(9, 8)
  /\ ret = <<Fin(-4, 1), Fin(4, 1)>>

\* C2: on a matrix with zero rows calculate_limits returns exactly
\* (-10.0, 10.0) whatever padding is, and neither the scan nor the
\* ceil(max * padding) computation is performed (no local is initialised).
C2_EmptyGivesDefault ==
  (Done("calculate_limits_cpp") /\ nrow(args.vertices) = 0) =>
    /\ ret = <<Fin(-10, 1), Fin(10, 1)>>
    /\ loc = NoLocals

\* C2 witness: an empty matrix with a NaN padding has returned the default.
C2_Witness ==
  /\ Done("calculate_limits_cpp")
  /\ nrow(args.vertices) = 0
  /\ IsNaN(args.padding)
  /\ ret = <<Fin(-10, 1), Fin(10, 1)>>

\* C3: count_bounded_cells returns the number of entries equal to FALSE:
\* 0 for the empty vector, 0 when every entry is TRUE, and always between 0
\* and the length.
C3_CountsFalseEntries ==
  Done("count_bounded_cells_cpp") =>
    LET h == args.has_infinite
    IN  /\ ret = Cardinality({i \in DOMAIN h : h[i] = "FALSE"})
        /\ (size(h) = 0 => ret = 0)
        /\ ((\A i \in DOMAIN h : h[i] = "TRUE") => ret = 0)
        /\ 0 <= ret
        /\ ret <= size(h)

\* C3 witness: countBounded([false, false, true]) has returned 2.
C3_Witness ==
  /\ Done("count_bounded_cells_cpp")
  /\ size(args.has_infinite) = 3
  /\ args.has_infinite[0] = "FALSE"
  /\ args.has_infinite[1] = "FALSE"
  /\ args.has_infinite[2] = "TRUE"
  /\ ret = 2

\* C4: for num_points >= 2 generate_spiral returns a matrix with exactly the
\* rows 0 .. num_points-1, each of them assigned by the loop before the return.
C4_AllRowsWritten ==
  (Done("generate_spiral_cpp") /\ args.num_points >= 2) =>
    /\ DOMAIN ret.data = 0 .. args.num_points - 1
    /\ loc.written = 0 .. args.num_points - 1
    /\ \A i \in DOMAIN ret.data : DOMAIN ret.data[i] = 0 .. 1

\* C4 witness: a call with at least three points has returned, all rows written.
C4_Witness ==
  /\ Done("generate_spiral_cpp")
  /\ args.num_points >= 3
  /\ nrow(ret.data) = args.num_points
  /\ loc.written = DOMAIN ret.data

\* the pair (lower, upper) is symmetric about zero with upper >= 0
Symmetric(pair) == FEq(pair[1], FNeg(pair[2])) /\ FGe(pair[2], Zero)

\* C5 as stated: every pair calculate_limits returns, for any vertices and
\* any padding, has lower = -upper and upper >= 0.
C5_Original ==
  Done("calculate_limits_cpp") => Symmetric(ret)

\* C5 amended: the pair calculate_limits returns has lower = -upper and
\* upper >= 0 when the matrix is empty, or padding >= 0 and the product of the
\* maximum and padding is a number (not 0 * Inf).
C5_SymmetricForNonNegativePadding ==
  (/\ Done("calculate_limits_cpp")
   /\ \/ nrow(args.vertices) = 0
      \/ /\ FGe(args.padding, Zero)
         /\ ~IsNaN(FMul(MaxNumber(args.vertices), args.padding)))
  => Symmetric(ret)

\* C5 witness: rows with a finite maximum, padding 9/8, returned (-4, 4).
C5_Witness ==
  /\ Done("calculate_limits_cpp")
  /\ nrow(args.vertices) # 0
  /\ MaxNumber(args.vertices) = Fin(3, 1)
  /\ args.padding = Fin(9, 8)
  /\ ret = <<Fin(-4, 1), Fin(4, 1)>>
  /\ Symmetric(ret)

C7_DegenerateRowsAreNaN ==
  Done("generate_spiral_cpp") =>
    /\ DOMAIN ret.data = 0 .. args.num_points - 1
    /\ \A i \in DOMAIN ret.data :
         (args.num_points = 1 \/ FGt(Zero, loc.thetas[i])) =>
           IsNaN(ret.data[i][0]) /\ IsNaN(ret.data[i][1])

\* C7 witness: from -1 to 13/2 in two points: row 0 (theta = -1) is NaN in
\* both coordinates, row 1 is not.
C7_Witness ==
  /\ Done("generate_spiral_cpp")
  /\ args.num_points = 2
  /\ loc.thetas[0] = Fin(-1, 1)
  /\ IsNaN(ret.data[0][0])
  /\ IsNaN(ret.data[0][1])
  /\ ~IsNaN(ret.data[1][0])

\* C7, the other case: one point from 0 to 13/2; the step is +Inf, theta is
\* 0 * Inf = NaN and the only row is NaN.
C7_WitnessOnePoint ==
  /\ Done("generate_spiral_cpp")
  /\ args.num_points = 1
  /\ args.angle_start = Zero
  /\ loc.step = PInf
  /\ IsNaN(ret.data[0][0])
  /\ IsNaN(ret.data[0][1])

\* C8: each routine is deterministic and keeps nothing between calls: a call
\* on the arguments of a remembered earlier call, whatever calls of the three
\* routines came in between, returns the value that call returned.
C8_SameArgumentsSameResult ==
  (pc = "done" /\ memo.fn = fn /\ memo.args = args) => ret = memo.ret

\* C8 witness: a remembered call is repeated after a different call.
C8_Witness ==
  /\ pc = "done"
  /\ memo.fn = fn
  /\ memo.args = args
  /\ memo.between
  /\ ret = memo.ret

\* the angle of row i as the claim gives it
ClaimedTheta(i) ==
  LET step == FDiv(FSub(args.angle_end, args.angle_start),
                   FFromInt(args.num_points - 1))
  IN  FAdd(args.angle_start, FMul(FFromInt(i), step))

\* every row i holds (sqrt(theta_i) * cos(theta_i), sqrt(theta_i) * sin(theta_i))
RowsFollowFormula ==
  \A i \in 0 .. args.num_points - 1 :
    /\ i \in DOMAIN loc.thetas
    /\ loc.thetas[i] = ClaimedTheta(i)
    /\ ret.data[i][0] = FMul(FSqrt(ClaimedTheta(i)), FCos(ClaimedTheta(i)))
    /\ ret.data[i][1] = FMul(FSqrt(ClaimedTheta(i)), FSin(ClaimedTheta(i)))

Rearranged(v, p, s) ==
  [i \in DOMAIN v |-> IF s[i] THEN [c \in 0 .. 1 |-> v[p[i]][1 - c]]
                               ELSE v[p[i]]]

\* v with its row j repeated at the end
WithRowRepeated(v, j) ==
  [i \in 0 .. nrow(v) |-> IF i = nrow(v) THEN v[j] ELSE v[i]]

Permutations(D) == {p \in [D -> D] : \A i, j \in D : p[i] = p[j] => i = j}

\* C10: the result of calculate_limits does not depend on the order of the
\* rows, nor on which coordinate of a row is x and which is y, nor on a row
\* being repeated.
C10_OrderIndependent ==
  Done("calculate_limits_cpp") =>
    LET v == args.vertices
        same == [i \in DOMAIN v |-> i]
        none == [i \in DOMAIN v |-> FALSE]
    IN  /\ \A p \in Permutations(DOMAIN v) :
             calculate_limits_cpp(Rearranged(v, p, none), args.padding) = ret
        /\ \A s \in [DOMAIN v -> BOOLEAN] :
             calculate_limits_cpp(Rearranged(v, same, s), args.padding) = ret
        /\ \A j \in DOMAIN v :
             calculate_limits_cpp(WithRowRepeated(v, j), args.padding) = ret

\* C10 witness: rows (1, -3), (NaN, 1) returned (-4, 4); the rows in the
\* other order with their coordinates swapped give the same pair.
C10_Witness ==
  /\ Done("calculate_limits_cpp")
  /\ nrow(args.vertices) = 2
  /\ args.vertices[0][0] = Fin(1, 1)
  /\ args.vertices[0][1] = Fin(-3, 1)
  /\ IsNaN(args.vertices[1][0])
  /\ args.vertices[1][1] = Fin(1, 1)
  /\ args.padding = Fin(9, 8)
  /\ ret = <<Fin(-4, 1), Fin(4, 1)>>
  /\ calculate_limits_cpp(
       Rearranged(args.vertices, [i \in 0 .. 1 |-> 1 - i], [i \in 0 .. 1 |-> TRUE]),
       args.padding) = ret

\* the step-by-step run and the function form of calculate_limits agree
LimitsRunIsFunction ==
  Done("calculate_limits_cpp") =>
    ret = calculate_limits_cpp(args.vertices, args.padding)

===========================================================================
